---- MODULE Spec2Model ----
(***************************************************************************)
(* Model of api/keepalive.py: a FastAPI service that loads a list of       *)
(* Supabase configurations from SUPABASE_CONFIG at import time and pings   *)
(* them on request (all / by index / by name).                             *)
(*                                                                         *)
(* Python values are tagged records ([t |-> "list", items |-> ...],        *)
(* [t |-> "dict", d |-> ...], ...); Optional[str] is <<>> (None) or <<s>>. *)
(* The Chinese message texts of the source are rendered in ASCII.          *)
(***************************************************************************)
EXTENDS Integers, Sequences, FiniteSets, TLC

\* Longest SUPABASE_CONFIG array the model draws.
MaxTargets == 2

VARIABLES raw, config_list, startup_error, pc, request, idx,
          success_count, failure_count, calls, outcomes, response

vars == <<raw, config_list, startup_error, pc, request, idx,
          success_count, failure_count, calls, outcomes, response>>

(***************************************************************************)
(* JSON documents (what the text of SUPABASE_CONFIG denotes) and the       *)
(* Python values json.loads makes of them.                                 *)
(***************************************************************************)
JNull == [j |-> "null"]
JNumber == [j |-> "number", n |-> 1]
JString(s) == [j |-> "string", s |-> s]
JObject(members) == [j |-> "object", members |-> members]
JArray(items) == [j |-> "array", items |-> items]

None == <<>>
PyList(items) == [t |-> "list", items |-> items]
PyDict(d) == [t |-> "dict", d |-> d]

FullMembers(n, u) ==
    << <<"name", n>>, <<"supabase_url", u>>,
       <<"supabase_key", "k">>, <<"table_name", "t">> >>

\* The array elements the model draws: complete objects (two of them with the
\* same name, one with an empty url, one with a repeated member), objects
\* lacking members, and a non-object.
ElementDocs ==
    { JObject(FullMembers("db1", "u1")),
      JObject(FullMembers("db2", "u2")),
      JObject(FullMembers("db1", "u2")),
      JObject(FullMembers("db2", "")),
      JObject(FullMembers("db1", "u1") \o << <<"name", "db2">> >>),
      JObject(SubSeq(FullMembers("db1", "u1"), 2, 4)),
      JObject(SubSeq(FullMembers("db1", "u1"), 1, 2)),
      JNumber }

ArrayDocs ==
    { JArray(s) : s \in UNION { [1..n -> ElementDocs] : n \in 0..MaxTargets } }

Malformed == [ok |-> FALSE]
Text(doc) == [ok |-> TRUE, doc |-> doc]

RawTexts ==
    {Malformed}
    \cup { Text(d) : d \in ArrayDocs }
    \cup { Text(JNull), Text(JString("db1")),
           Text(JObject(FullMembers("db1", "u1"))) }

\* A JSON object becomes a dict; a repeated key keeps its last value.
DecodeObject(members) ==
    LET keys == { members[i][1] : i \in 1..Len(members) }
        last(k) == CHOOSE i \in 1..Len(members) :
                      /\ members[i][1] = k
                      /\ \A m \in 1..Len(members) : members[m][1] = k => m <= i
    IN  PyDict([k \in keys |-> members[last(k)][2]])

DecodeElement(doc) ==
    CASE doc.j = "null" -> [t |-> "NoneType"]
      [] doc.j = "number" -> [t |-> "int", n |-> doc.n]
      [] doc.j = "string" -> [t |-> "str", s |-> doc.s]
      [] doc.j = "object" -> DecodeObject(doc.members)

Decode(doc) ==
    IF doc.j = "array"
    THEN PyList([k \in 1..Len(doc.items) |-> DecodeElement(doc.items[k])])
    ELSE DecodeElement(doc)

json_loads(text) ==
    IF text.ok
    THEN [raised |-> FALSE, value |-> Decode(text.doc)]
    ELSE [raised |-> TRUE, text |-> "Expecting value: line 1 column 1 (char 0)"]

(***************************************************************************)
(* Module-level configuration loading (runs once, at import).              *)
(***************************************************************************)
required_fields_NoName == {"supabase_url", "supabase_key", "table_name"}
required_fields == {"name", "supabase_url", "supabase_key", "table_name"}

\* Iteration orders of a Python set of strings: the order of ', '.join(missing)
\* depends on the process's hash seed.
Orders ==
    { s \in [1..4 -> required_fields] : \A f \in required_fields : \E i \in 1..4 : s[i] = f }

RECURSIVE Join(_)
Join(names) ==
    IF Len(names) = 0 THEN ""
    ELSE IF Len(names) = 1 THEN names[1]
    ELSE names[1] \o ", " \o Join(Tail(names))

\* required_fields - conf.keys(); a non-dict element has no keys() at all.
HasKeys(conf) == conf.t = "dict"
Missing(conf) == required_fields \ DOMAIN conf.d

ElementFails(conf) == ~HasKeys(conf) \/ Missing(conf) # {}

\* len(config_list) == 0
IsEmptyList_OffByOne(v) == Len(v.items) <= 1
IsEmptyList(v) == Len(v.items) = 0

\* The for loop over enumerate(config_list) raises at the first failing element.
ValidationError(items, order) ==
    IF \A k \in 1..Len(items) : ~ElementFails(items[k])
    THEN None
    ELSE LET k == CHOOSE k \in 1..Len(items) :
                      /\ ElementFails(items[k])
                      /\ \A m \in 1..(k - 1) : ~ElementFails(items[m])
         IN  IF ~HasKeys(items[k])
             THEN <<"'" \o items[k].t \o "' object has no attribute 'keys'">>
             ELSE << "config index=" \o ToString(k - 1) \o " missing fields: "
                     \o Join(SelectSeq(order, LAMBDA f : f \in Missing(items[k]))) >>

\* The try/except block: the values of config_list and startup_error after it.
LoadConfig(text, order) ==
    LET r == json_loads(text) IN
    IF r.raised
    THEN [config_list |-> PyList(<<>>), startup_error |-> <<r.text>>]
    ELSE IF r.value.t # "list"
    THEN [config_list |-> r.value,
          startup_error |-> <<"SUPABASE_CONFIG must be a JSON array">>]
    ELSE IF IsEmptyList(r.value)
    THEN [config_list |-> r.value,
          startup_error |-> <<"SUPABASE_CONFIG must not be an empty array">>]
    ELSE [config_list |-> r.value,
          startup_error |-> ValidationError(r.value.items, order)]

(***************************************************************************)
(* Helpers of the routes.                                                  *)
(***************************************************************************)
\* `if startup_error:` : None and "" are falsy.
Truthy(e) == e # None /\ e[1] # ""

JSONResponse(status_code, content) ==
    [status_code |-> status_code, content |-> content]

\* FastAPI's handler for a raised HTTPException answers {"detail": detail}.
HTTPException(status_code, detail) ==
    JSONResponse(status_code, [detail |-> detail])

NoResponse == [status_code |-> 0, content |-> [pending |-> TRUE]]
NoRequest == [route |-> "none", idx |-> 0, conf_name |-> ""]

StartupFailed_Ok(e) ==
    JSONResponse(200, [status |-> "success", message |-> "ok"])
StartupFailed(e) ==
    JSONResponse(500, [status |-> "error", message |-> "Startup failed: " \o e[1]])

\* What the database collaborator does on one attempt: <<>> (no exception)
\* or <<text>> (an exception whose str() is text).
Excs == {<<>>, <<"connection refused">>, <<"timeout">>}

\* _perform_ping's return value, given what create_client / execute did.
PerformPing_Generic(conf, exc) ==
    IF exc = <<>> THEN [success |-> TRUE, msg |-> "ok"]
    ELSE [success |-> FALSE, msg |-> "error"]
PerformPing(conf, exc) ==
    IF exc = <<>> THEN [success |-> TRUE, msg |-> "ok"]
    ELSE [success |-> FALSE, msg |-> exc[1]]

\* The collaborator call _perform_ping makes for conf; target is the position
\* of conf in config_list (0-based), kept for the record only.
Contact(target, conf) ==
    [target |-> target,
     supabase_url |-> conf.d["supabase_url"],
     supabase_key |-> conf.d["supabase_key"],
     table_name |-> conf.d["table_name"]]

NotFound == 0 - 1

\* _get_conf_by_index: the position it returns the element of, or NotFound
\* where it raises.
GetConfByIndex_NoLowerCheck(cl, i) ==
    IF i >= Len(cl.items) THEN NotFound
    ELSE IF i < 0 THEN Len(cl.items) + i ELSE i
GetConfByIndex(cl, i) ==
    IF i < 0 \/ i >= Len(cl.items) THEN NotFound ELSE i

\* _get_conf_by_name: the position of the element its loop returns, or
\* NotFound where the loop ends and it raises.
GetConfByName_Last(cl, name) ==
    IF \A k \in 1..Len(cl.items) : cl.items[k].d["name"] # name
    THEN NotFound
    ELSE (CHOOSE k \in 1..Len(cl.items) :
              /\ cl.items[k].d["name"] = name
              /\ \A m \in (k + 1)..Len(cl.items) : cl.items[m].d["name"] # name) - 1
GetConfByName(cl, name) ==
    IF \A k \in 1..Len(cl.items) : cl.items[k].d["name"] # name
    THEN NotFound
    ELSE (CHOOSE k \in 1..Len(cl.items) :
              /\ cl.items[k].d["name"] = name
              /\ \A m \in 1..(k - 1) : cl.items[m].d["name"] # name) - 1

\* The final if / elif / else of keepalive_all.
AllResponse_AnySuccess(sc, fc, n) ==
    IF sc > 0
    THEN JSONResponse(200, [status |-> "success", message |-> "ok"])
    ELSE JSONResponse(500, [status |-> "error", message |-> "all_failure"])
AllResponse(sc, fc, n) ==
    IF sc = n
    THEN JSONResponse(200, [status |-> "success", message |-> "ok"])
    ELSE IF sc > 0
    THEN JSONResponse(500, [status |-> "error", message |-> "partial_failure"])
    ELSE JSONResponse(500, [status |-> "error", message |-> "all_failure"])

\* The response of keepalive_by_index / keepalive_by_name for a ping result.
OneResponse(r) ==
    JSONResponse(IF r.success THEN 200 ELSE 500,
                 [status |-> IF r.success THEN "success" ELSE "error",
                  message |-> r.msg])

\* The inputs the model draws for the two parameterised routes.
IdxInputs == (0 - 1)..(MaxTargets + 1)
NameInputs == {"db1", "db2", "db9"}

(***************************************************************************)
(* State machine.  pc is "boot" before the module body has run, "idle"     *)
(* between requests and "all_loop" inside keepalive_all's for loop.  The   *)
(* handlers are coroutines without an await, so one runs at a time.        *)
(* calls and outcomes record, per request, the collaborator calls made and *)
(* what each did.                                                          *)
(***************************************************************************)
Init ==
    /\ raw \in RawTexts
    /\ config_list = PyList(<<>>)
    /\ startup_error = None
    /\ pc = "boot"
    /\ request = NoRequest
    /\ idx = 0
    /\ success_count = 0
    /\ failure_count = 0
    /\ calls = <<>>
    /\ outcomes = <<>>
    /\ response = NoResponse

Startup ==
    /\ pc = "boot"
    /\ \E order \in Orders :
          LET r == LoadConfig(raw, order) IN
          /\ config_list' = r.config_list
          /\ startup_error' = r.startup_error
    /\ pc' = "idle"
    /\ UNCHANGED <<raw, request, idx, success_count, failure_count,
                   calls, outcomes, response>>

\* keepalive_all up to its for loop.
KeepaliveAllBegin ==
    /\ pc = "idle"
    /\ request' = [route |-> "all", idx |-> 0, conf_name |-> ""]
    /\ calls' = <<>>
    /\ outcomes' = <<>>
    /\ idx' = 0
    /\ success_count' = 0
    /\ failure_count' = 0
    /\ IF Truthy(startup_error)
       THEN /\ response' = StartupFailed(startup_error)
            /\ pc' = "idle"
       ELSE /\ response' = NoResponse
            /\ pc' = "all_loop"
    /\ UNCHANGED <<raw, config_list, startup_error>>

\* One iteration of the for loop of keepalive_all.
KeepaliveAllPing_BreakOnFailure ==
    /\ pc = "all_loop"
    /\ idx < Len(config_list.items)
    /\ \E exc \in Excs :
          LET conf == config_list.items[idx + 1]
              r == PerformPing(conf, exc)
          IN  /\ calls' = Append(calls, Contact(idx, conf))
              /\ outcomes' = Append(outcomes, exc)
              /\ success_count' = IF r.success THEN success_count + 1 ELSE success_count
              /\ failure_count' = IF r.success THEN failure_count ELSE failure_count + 1
              /\ idx' = IF r.success THEN idx + 1 ELSE Len(config_list.items)
    /\ UNCHANGED <<raw, config_list, startup_error, pc, request, response>>

KeepaliveAllPing ==
    /\ pc = "all_loop"
    /\ idx < Len(config_list.items)
    /\ \E exc \in Excs :
          LET conf == config_list.items[idx + 1]
              r == PerformPing(conf, exc)
          IN  /\ calls' = Append(calls, Contact(idx, conf))
              /\ outcomes' = Append(outcomes, exc)
              /\ success_count' = IF r.success THEN success_count + 1 ELSE success_count
              /\ failure_count' = IF r.success THEN failure_count ELSE failure_count + 1
    /\ idx' = idx + 1
    /\ UNCHANGED <<raw, config_list, startup_error, pc, request, response>>

\* keepalive_all after its for loop.
KeepaliveAllRespond ==
    /\ pc = "all_loop"
    /\ idx = Len(config_list.items)
    /\ response' = AllResponse(success_count, failure_count, Len(config_list.items))
    /\ pc' = "idle"
    /\ UNCHANGED <<raw, config_list, startup_error, request, idx,
                   success_count, failure_count, calls, outcomes>>

\* keepalive_by_index, whole.
KeepaliveByIndex_RecordsFailure ==
    /\ pc = "idle"
    /\ \E i \in IdxInputs, exc \in Excs :
          /\ request' = [route |-> "index", idx |-> i, conf_name |-> ""]
          /\ IF Truthy(startup_error)
             THEN /\ response' = StartupFailed(startup_error)
                  /\ calls' = <<>>
                  /\ outcomes' = <<>>
                  /\ startup_error' = startup_error
             ELSE LET at == GetConfByIndex(config_list, i) IN
                  IF at = NotFound
                  THEN /\ response' = HTTPException(404,
                              "index " \o ToString(i) \o " does not exist")
                       /\ calls' = <<>>
                       /\ outcomes' = <<>>
                       /\ startup_error' = startup_error
                  ELSE LET conf == config_list.items[at + 1]
                           r == PerformPing(conf, exc)
                       IN  /\ calls' = <<Contact(at, conf)>>
                           /\ outcomes' = <<exc>>
                           /\ response' = OneResponse(r)
                           /\ startup_error' = IF r.success THEN startup_error ELSE <<r.msg>>
    /\ UNCHANGED <<raw, config_list, pc, idx, success_count, failure_count>>

KeepaliveByIndex ==
    /\ pc = "idle"
    /\ \E i \in IdxInputs, exc \in Excs :
          /\ request' = [route |-> "index", idx |-> i, conf_name |-> ""]
          /\ IF Truthy(startup_error)
             THEN /\ response' = StartupFailed(startup_error)
                  /\ calls' = <<>>
                  /\ outcomes' = <<>>
             ELSE LET at == GetConfByIndex(config_list, i) IN
                  IF at = NotFound
                  THEN /\ response' = HTTPException(404,
                              "index " \o ToString(i) \o " does not exist")
                       /\ calls' = <<>>
                       /\ outcomes' = <<>>
                  ELSE LET conf == config_list.items[at + 1]
                           r == PerformPing(conf, exc)
                       IN  /\ calls' = <<Contact(at, conf)>>
                           /\ outcomes' = <<exc>>
                           /\ response' = OneResponse(r)
    /\ UNCHANGED <<raw, config_list, startup_error, pc, idx,
                   success_count, failure_count>>

\* keepalive_by_name, whole.
KeepaliveByName ==
    /\ pc = "idle"
    /\ \E name \in NameInputs, exc \in Excs :
          /\ request' = [route |-> "name", idx |-> 0, conf_name |-> name]
          /\ IF Truthy(startup_error)
             THEN /\ response' = StartupFailed(startup_error)
                  /\ calls' = <<>>
                  /\ outcomes' = <<>>
             ELSE LET at == GetConfByName(config_list, name) IN
                  IF at = NotFound
                  THEN /\ response' = HTTPException(404,
                              "name '" \o name \o "' has no configuration")
                       /\ calls' = <<>>
                       /\ outcomes' = <<>>
                  ELSE LET conf == config_list.items[at + 1]
                           r == PerformPing(conf, exc)
                       IN  /\ calls' = <<Contact(at, conf)>>
                           /\ outcomes' = <<exc>>
                           /\ response' = OneResponse(r)
    /\ UNCHANGED <<raw, config_list, startup_error, pc, idx,
                   success_count, failure_count>>

Next ==
    \/ Startup
    \/ KeepaliveAllBegin
    \/ KeepaliveAllPing
    \/ KeepaliveAllRespond
    \/ KeepaliveByIndex
    \/ KeepaliveByName

Spec == Init /\ [][Next]_vars

(***************************************************************************)
(* Properties.                                                             *)
(***************************************************************************)
Ok200 == [status_code |-> 200, content |-> [status |-> "success", message |-> "ok"]]
Err500(m) == [status_code |-> 500, content |-> [status |-> "error", message |-> m]]

\* The request last served does not resolve to a target.
Unresolved ==
    \/ /\ request.route = "index"
       /\ (request.idx < 0 \/ request.idx >= Len(config_list.items))
    \/ /\ request.route = "name"
       /\ \A k \in 1..Len(config_list.items) :
              config_list.items[k].d["name"] # request.conf_name

\* C1: with the startup error set, every route answers 500 with the body
\* {"status": "error", "message": "Startup failed: <reason>"} whatever the
\* index or name, and the collaborator is never called.
C1_StartupErrorGate ==
    (pc # "boot" /\ startup_error # None) =>
        /\ pc = "idle"
        /\ calls = <<>>
        /\ outcomes = <<>>
        /\ request.route # "none" =>
               response = Err500("Startup failed: " \o startup_error[1])

C1_Witness ==
    /\ startup_error # None
    /\ request.route = "index"
    /\ request.idx = 1
    /\ response.status_code = 500

\* C2: ping-all over N >= 1 loaded targets of which S pings succeed answers
\* 200 success/ok when S = N, 500 all_failure when S = 0, and 500
\* partial_failure when 0 < S < N: a function of S and N alone.
C2_AllAggregate ==
    (pc = "idle" /\ request.route = "all" /\ startup_error = None) =>
        LET n == Len(config_list.items)
            s == Cardinality({ k \in 1..Len(outcomes) : outcomes[k] = <<>> })
        IN  /\ n >= 1
            /\ Len(outcomes) = n
            /\ response = IF s = n THEN Ok200
                          ELSE IF s = 0 THEN Err500("all_failure")
                          ELSE Err500("partial_failure")

C2_Witness ==
    /\ pc = "idle"
    /\ request.route = "all"
    /\ startup_error = None
    /\ Len(outcomes) = 2
    /\ outcomes[1] # <<>>
    /\ outcomes[2] = <<>>
    /\ response = Err500("partial_failure")

\* C3: in a ping-all request without startup error the targets are pinged
\* once each, in list order, all of them before the response is produced; a
\* collaborator error on one target does not stop the following ones.
C3_AllPingsEveryTarget ==
    (pc # "boot" /\ request.route = "all" /\ startup_error = None) =>
        LET n == Len(config_list.items) IN
        /\ idx <= n
        /\ Len(calls) = idx
        /\ Len(outcomes) = idx
        /\ \A k \in 1..Len(calls) :
              /\ calls[k].target = k - 1
              /\ calls[k].supabase_url = config_list.items[k].d["supabase_url"]
              /\ calls[k].supabase_key = config_list.items[k].d["supabase_key"]
              /\ calls[k].table_name = config_list.items[k].d["table_name"]
        /\ pc = "idle" => idx = n
        /\ response # NoResponse => (pc = "idle" /\ Len(calls) = n)

C3_Witness ==
    /\ pc = "idle"
    /\ request.route = "all"
    /\ startup_error = None
    /\ Len(calls) = 2
    /\ outcomes[1] # <<>>
    /\ calls[2].target = 1
    /\ response # NoResponse

\* C4: a by-index request with idx < 0 or idx >= N, or a by-name request
\* whose name no target has, answers 404 and contacts no target.
C4_NotFoundContactsNone ==
    (pc = "idle" /\ startup_error = None
        /\ request.route \in {"index", "name"} /\ Unresolved) =>
        /\ response.status_code = 404
        /\ calls = <<>>
        /\ outcomes = <<>>

C4_Witness ==
    /\ pc = "idle"
    /\ startup_error = None
    /\ request.route = "index"
    /\ request.idx < 0
    /\ response.status_code = 404
    /\ calls = <<>>

\* C5: a by-index or by-name request whose target resolves makes exactly one
\* ping, of that target, and echoes it: 200 success/ok when it succeeds, 500
\* error with the error's text as message when it fails.
C5_SinglePingEcho ==
    (pc = "idle" /\ startup_error = None
        /\ request.route \in {"index", "name"} /\ ~Unresolved) =>
        /\ Len(calls) = 1
        /\ Len(outcomes) = 1
        /\ request.route = "index" => calls[1].target = request.idx
        /\ request.route = "name" =>
               config_list.items[calls[1].target + 1].d["name"] = request.conf_name
        /\ calls[1].supabase_url =
               config_list.items[calls[1].target + 1].d["supabase_url"]
        /\ response = IF outcomes[1] = <<>> THEN Ok200 ELSE Err500(outcomes[1][1])

C5_Witness ==
    /\ pc = "idle"
    /\ startup_error = None
    /\ request.route = "name"
    /\ Len(calls) = 1
    /\ outcomes = << <<"timeout">> >>
    /\ response = Err500("timeout")

\* C6: every response body, whatever the route and the outcome, has a
\* status field and a message field.
C6_BodyHasStatusAndMessage ==
    (pc # "boot" /\ response # NoResponse) =>
        {"status", "message"} \subseteq DOMAIN response.content

\* C7 (as claimed): every target of a configuration that passed validation
\* has the four fields present and non-empty, so no target with a missing
\* or empty field is pinged.
C7_FieldsPresentNonEmpty ==
    (pc # "boot" /\ startup_error = None) =>
        /\ \A k \in 1..Len(config_list.items) :
              \A f \in {"name", "supabase_url", "supabase_key", "table_name"} :
                  /\ f \in DOMAIN config_list.items[k].d
                  /\ config_list.items[k].d[f] # ""
        /\ \A c \in 1..Len(calls) :
              /\ calls[c].supabase_url # ""
              /\ calls[c].supabase_key # ""
              /\ calls[c].table_name # ""

\* C7 (amended): every target of a configuration that passed validation is
\* an object with the four keys present (their values may be empty), so no
\* target lacking a field is pinged.
C7_FieldsPresent ==
    (pc # "boot" /\ startup_error = None) =>
        /\ config_list.t = "list"
        /\ \A k \in 1..Len(config_list.items) :
              /\ config_list.items[k].t = "dict"
              /\ {"name", "supabase_url", "supabase_key", "table_name"}
                     \subseteq DOMAIN config_list.items[k].d
        /\ \A c \in 1..Len(calls) : calls[c].target \in 0..(Len(config_list.items) - 1)

C7_Witness ==
    /\ pc = "idle"
    /\ startup_error = None
    /\ Len(calls) = 1
    /\ calls[1].supabase_url = ""
    /\ config_list.items[calls[1].target + 1].d["supabase_url"] = ""

\* The configuration text is one the loader must refuse.
InvalidText ==
    \/ ~raw.ok
    \/ raw.doc.j # "array"
    \/ Len(raw.doc.items) = 0
    \/ \E k \in 1..Len(raw.doc.items) :
          \/ raw.doc.items[k].j # "object"
          \/ \E f \in {"name", "supabase_url", "supabase_key", "table_name"} :
                \A i \in 1..Len(raw.doc.items[k].members) :
                    raw.doc.items[k].members[i][1] # f

\* C8: loading sets the startup error exactly for malformed JSON, a
\* non-array, an empty array, or an element lacking a required field; for
\* any other text it sets none and the configuration has the input's
\* elements, in the input's order and number.
C8_LoadExactly ==
    pc # "boot" =>
        /\ startup_error # None <=> InvalidText
        /\ ~InvalidText =>
              /\ config_list.t = "list"
              /\ Len(config_list.items) = Len(raw.doc.items)
              /\ \A k \in 1..Len(raw.doc.items) :
                    LET m == raw.doc.items[k].members
                        conf == config_list.items[k]
                    IN  /\ conf.t = "dict"
                        /\ DOMAIN conf.d = { m[i][1] : i \in 1..Len(m) }
                        /\ \A i \in 1..Len(m) :
                              (\A later \in (i + 1)..Len(m) : m[later][1] # m[i][1])
                                  => conf.d[m[i][1]] = m[i][2]

C8_Witness ==
    /\ pc = "idle"
    /\ startup_error = None
    /\ Len(config_list.items) = 2
    /\ config_list.items[1].d["name"] = "db2"
    /\ config_list.items[2].d["name"] = "db1"

\* C9: by-name pings the first target, in list order, whose name equals the
\* given one; later targets with that name are not contacted.
C9_FirstMatch ==
    (pc = "idle" /\ startup_error = None /\ request.route = "name" /\ ~Unresolved) =>
        /\ Len(calls) = 1
        /\ config_list.items[calls[1].target + 1].d["name"] = request.conf_name
        /\ \A k \in 1..calls[1].target :
              config_list.items[k].d["name"] # request.conf_name
        /\ calls[1].supabase_url =
               config_list.items[calls[1].target + 1].d["supabase_url"]

C9_Witness ==
    /\ pc = "idle"
    /\ startup_error = None
    /\ request.route = "name"
    /\ Len(config_list.items) = 2
    /\ config_list.items[1].d["name"] = request.conf_name
    /\ config_list.items[2].d["name"] = request.conf_name
    /\ config_list.items[1].d["supabase_url"] # config_list.items[2].d["supabase_url"]
    /\ Len(calls) = 1
    /\ calls[1].target = 0
    /\ calls[1].supabase_url = config_list.items[1].d["supabase_url"]

\* C10: once loaded, config_list and startup_error are never changed by any
\* request, whatever the order of the requests and the outcomes of their
\* pings.
C10_ConfigFrozen ==
    [][pc # "boot" => (config_list' = config_list /\ startup_error' = startup_error)]_vars

\* A failed by-index request served after a completed ping-all request.
C10_Witness ==
    /\ pc = "idle"
    /\ startup_error = None
    /\ request.route = "index"
    /\ outcomes = << <<"timeout">> >>
    /\ Len(config_list.items) = 2
    /\ success_count + failure_count = 2

====
